---------------------------- MODULE Spec2Model ----------------------------
(***************************************************************************)
(* Unipolar SPWM generator for an H bridge (RP2350 / Pico 2).              *)
(*                                                                         *)
(*   src/spwm_lut.cpp  spwm_unipolar_arrays(): synthesis of the two ON/OFF *)
(*                     duration tables and the two sync counts             *)
(*   src/main.cpp      main(): dead-time adjustment of the tables, set-up  *)
(*                     of three PIO state machines and two DMA channels,   *)
(*                     synchronous start                                   *)
(*                                                                         *)
(* Number representation.  TLC integers are 32 bit signed, so a uint32_t   *)
(* of the program is carried as its two's-complement signed reading: a     *)
(* value v < 0 of the model stands for the unsigned value 2^32 + v, that   *)
(* is, for a subtraction that wrapped below zero.  With that reading       *)
(* uint32_t addition and subtraction are plain + and - as long as the      *)
(* result stays inside the 32 bit range, which it does for every value the *)
(* model reaches (times are below 2^27 ticks).                             *)
(***************************************************************************)
EXTENDS Integers, Sequences, FiniteSets, TLC

(***************************************************************************)
(* Program constants.                                                      *)
(***************************************************************************)
scaling_factor == 1000000
SIGNAL_FREQ == 50
MOD_INDEX_MF == 256
MOD_INDEX_MA_SCALED == 800000
DEAD_TIME == 50
DEADTIME_COMPENSATION == 2
IE_DELAY_COMPENSATION == 3
NET_DEADTIME_COUNT == DEAD_TIME - DEADTIME_COMPENSATION
BUFFER_SIZE_BITS == 11
BUFFER_SIZE == 2048
\* T_STEP is 10 ns: 1 / T_STEP ticks per second
TICKS_PER_SECOND == 100000000
\* Number of uint32_t entries of each table buffer (BUFFER_SIZE/4)
TableLen == BUFFER_SIZE \div 4

(***************************************************************************)
(* Bounds of the model.                                                    *)
(***************************************************************************)
\* PIO blocks the SDK may hand out (the RP2350 has three)
NumPio == 2
\* DMA channels the SDK may hand out
NumDma == 2

\* Words a state machine's TX FIFO holds
TxFifoDepth == 4

\* Words a state machine is followed through after it was enabled
MaxPulled == 6

\* State machines per PIO block
NumSm == 4

Pios == 0 .. (NumPio - 1)
Sms == 0 .. (NumSm - 1)
PioSm == Pios \X Sms
DmaChannels == 0 .. (NumDma - 1)
\* Words the DMA read address runs through before it wraps (2^size_bits bytes)
RingWords == (2 ^ BUFFER_SIZE_BITS) \div 4

(***************************************************************************)
(* sin() in integer arithmetic.                                            *)
(*                                                                         *)
(* The program evaluates  ma_scaled * sin(omega * t)  in double precision  *)
(* with omega = (2.0f * PI) / signal_duration and PI the float nearest to  *)
(* 3.141592654, and truncates the product to int32_t.  Every t it uses     *)
(* lies in the first quarter of the signal period, 0 <= t <= Q with        *)
(* Q = signal_duration / 4, so the angle is (PIf/2) * t/Q.                 *)
(*                                                                         *)
(* The model computes the same quantity in 2^-30 fixed point, with 15 bit  *)
(* limbs so that no intermediate exceeds 32 bits: the angle is reduced to  *)
(* [0, pi/4] (sine series below Q/2, cosine series of the complementary    *)
(* angle above) and the series are summed in Horner form.  The absolute    *)
(* error of SinFix is below 2 * 10^-9, i.e. below 0.002 counts after the   *)
(* multiplication by ma_scaled <= 10^6.                                    *)
(***************************************************************************)
LIMB == 32768
ONE == LIMB * LIMB
\* PIf / 4 in 2^-30 units, PIf = (float)3.141592654 = 3.1415927410125732
PIF_4 == 843314880
\* (PIf - pi) / 2 in 2^-30 units
PIF_DELTA == 47

Abs(x) == IF x < 0 THEN -x ELSE x

\* The one element of a singleton set
The(S) == CHOOSE r \in S : TRUE

\* floor(x * y / 2^30) rounded to nearest, for 0 <= x, y <= 2^30.  (Here and
\* below an operand is bound through a singleton set, which gives it its
\* value once however often the body uses it.)
MulFix(x, y) ==
    The({ LET xh == xv \div LIMB
              xl == xv % LIMB
              yh == yv \div LIMB
              yl == yv % LIMB
          IN  xh * yh
                + ((xh * yl + xl * yh) + ((xl * yl) \div LIMB) + (LIMB \div 2)) \div LIMB
          : xv \in {x}, yv \in {y} })

\* floor(num * 2^30 / den) for 0 <= num <= den < 2^30, by long division
RECURSIVE DivFixLoop(_, _, _, _)
DivFixLoop(rem, q, den, k) ==
    IF k = 0 THEN q
    ELSE IF 2 * rem >= den
         THEN DivFixLoop(2 * rem - den, 2 * q + 1, den, k - 1)
         ELSE DivFixLoop(2 * rem, 2 * q, den, k - 1)

DivFix(num, den) == DivFixLoop(num, 0, den, 30)

SinCoef == <<6, 20, 42, 72, 110, 156>>
CosCoef == <<2, 12, 30, 56, 90, 132>>

\* 1 - z/c1 (1 - z/c2 (1 - ... (1 - z/c6))) in 2^-30 units
RECURSIVE Horner(_, _, _)
Horner(z, cs, k) ==
    IF k > Len(cs) THEN ONE
    ELSE ONE - (MulFix(z, Horner(z, cs, k + 1)) \div cs[k])

\* sin((PIf/2) * t/Q) in 2^-30 units, 0 <= t <= Q
SinFix(t, Q) ==
    IF 2 * t <= Q
    THEN The({ MulFix(y, Horner(MulFix(y, y), SinCoef, 1))
               : y \in {MulFix(DivFix(2 * t, Q), PIF_4)} })
    ELSE The({ Horner(MulFix(y, y), CosCoef, 1)
               : y \in {Abs(MulFix(DivFix(2 * (Q - t), Q), PIF_4) - PIF_DELTA)} })

\* (int32_t)(ma_scaled * sin(omega * t)): truncation of the double product
ScaledSin(ma_scaled, t, Q) ==
    The({ LET mh == ma_scaled \div LIMB
              ml == ma_scaled % LIMB
              sh == s \div LIMB
              sl == s % LIMB
          IN  mh * sh + ((mh * sl + ml * sh) + ((ml * sl) \div LIMB)) \div LIMB
          : s \in {SinFix(t, Q)} })

(***************************************************************************)
(* Configurations.  SIGNAL_FREQ, MOD_INDEX_MF and MOD_INDEX_MA are         *)
(* "configurable constants before compilation" (main.cpp:58-62); a         *)
(* configuration is one choice of them.  ma is carried as ma_scaled, the   *)
(* value (uint32_t)(ma * scaling_factor) of spwm_lut.cpp:101.              *)
(***************************************************************************)
Cfg(f, m, a) == [signal_freq |-> f, mf |-> m, ma_scaled |-> a]

CompiledConfig == Cfg(SIGNAL_FREQ, MOD_INDEX_MF, MOD_INDEX_MA_SCALED)

\* mf a positive multiple of 4 and 0 < ma < 1
ValidConfig(c) ==
    /\ c.mf > 0
    /\ c.mf % 4 = 0
    /\ c.ma_scaled > 0
    /\ c.ma_scaled < scaling_factor

Configs ==
    { CompiledConfig,
      Cfg(50, 256, 50000), Cfg(60, 16, 50000), Cfg(60, 12, 500000),
      Cfg(255, 8, 50000), Cfg(255, 16, 100000), Cfg(255, 8, 10000),
      Cfg(255, 4, 50000),
      Cfg(60, 6, 50000), Cfg(60, 8, 0), Cfg(255, 8, 1000000) }

(***************************************************************************)
(* Quantities spwm_unipolar_arrays derives from its parameters.            *)
(***************************************************************************)
\* (uint32_t)(1.0f / (T_STEP * (double)(signal_freq * mf * 4)))
carrier_duration_quarter(c) == TICKS_PER_SECOND \div (c.signal_freq * c.mf * 4)
carrier_duration_half(c) == 2 * carrier_duration_quarter(c)
carrier_duration_3_quarter(c) == 3 * carrier_duration_quarter(c)
carrier_duration(c) == 4 * carrier_duration_quarter(c)
carrier_slope(c) == scaling_factor \div carrier_duration_quarter(c)
synth_signal_duration(c) == carrier_duration(c) * c.mf
signal_duration_quarter(c) == synth_signal_duration(c) \div 4
array_mid_point(c) == c.mf - 1
array_end_point(c) == (2 * c.mf) - 1
max_cycle_counts(c) == c.mf \div 4

\* ma_scaled * sin(omega * t) truncated to int32_t
SineAmplitude(c, t) == ScaledSin(c.ma_scaled, t, signal_duration_quarter(c))

VARIABLES
    pc,                     \* position of the control thread in main()
    blk,                    \* which setup block of main() runs: 0 H1, 1 H2, 2 sync-out
    cfg,                    \* the compiled configuration
    spwm_h1_high_table,     \* leg 1 duration table (BUFFER_SIZE/4 entries)
    spwm_h2_high_table,     \* leg 2 duration table
    h1_sync_count,          \* leg 1 sync count
    h2_sync_count,          \* leg 2 sync count
    syn,                    \* locals of spwm_unipolar_arrays
    signal_duration,        \* main's signal_duration (return value)
    adj_i,                  \* main's loop index i of the adjustment loop
    sync_out_half_duration, \* main's sync_out_half_duration
    pio,                    \* main's PIO pio (out-parameter of every claim)
    sm,                     \* main's uint sm[3]
    success,                \* main's bool success
    dma_ch,                 \* main's dma_ch0, dma_ch1
    dma_cfg,                \* main's dma_cfg0, dma_cfg1 (enable field)
    sm_program,             \* hardware: program each claimed state machine runs
    sm_enabled,             \* hardware: state machines whose enable bit is set
    tx_fifo,                \* hardware: TX FIFO of each state machine
    osr,                    \* hardware: output shift register of each state machine
    isr,                    \* hardware: input shift register of each state machine
    dma_claimed,            \* hardware: claimed DMA channels
    dma,                    \* hardware: configuration of each DMA channel
    pulled,                 \* history: words each state machine took from its TX FIFO
    written,                \* history: indices the synthesizer stored to, per table
    raw                     \* history: tables and sync counts as the synthesizer returned them

tables == <<spwm_h1_high_table, spwm_h2_high_table, h1_sync_count, h2_sync_count>>

locals == <<adj_i, sync_out_half_duration, pio, sm, success, dma_ch, dma_cfg>>

hw == <<sm_program, sm_enabled, tx_fifo, osr, isr, dma_claimed, dma>>

vars == <<pc, blk, cfg, tables, syn, signal_duration, locals, hw, pulled, written, raw>>

TableIndex == 0 .. (TableLen - 1)

\* Locals of spwm_unipolar_arrays after its declarations (lines 104-139)
SynInit(c) ==
    [ n |-> 0,
      tri_time_counter |-> 0,
      time_counter |-> 0,
      s1_sync_captured |-> FALSE,
      s2_sync_captured |-> FALSE,
      h1_high_val_old |-> 0,
      h2_high_val_old |-> 0,
      p_h1_ref1 |-> 0,
      p_h1_ref2 |-> c.mf - 2,
      p_h1_ref3 |-> c.mf,
      p_h1_ref4 |-> (c.mf * 2) - 2,
      p_h2_ref1 |-> 0,
      p_h2_ref2 |-> c.mf - 2,
      p_h2_ref3 |-> c.mf,
      p_h2_ref4 |-> (c.mf * 2) - 2 ]

\* A DMA channel nobody configured; sent is a history field, the number of
\* words the channel has transferred
DmaIdle == [active |-> FALSE, target |-> <<0, 0>>, table |-> 0, read_index |-> 0,
            ring_words |-> 0, sent |-> 0]

\* main's locals pio, sm, success and dma_ch0/1 are declared without a value;
\* every path assigns them before reading, so Init gives them a fixed filler.
Init ==
    /\ pc = "call_synth"
    /\ cfg \in Configs
    /\ spwm_h1_high_table = [i \in TableIndex |-> 0]
    /\ spwm_h2_high_table = [i \in TableIndex |-> 0]
    /\ h1_sync_count = 0
    /\ h2_sync_count = 0
    /\ syn = SynInit(cfg)
    /\ signal_duration = 0
    /\ blk = 0
    /\ adj_i = 0
    /\ sync_out_half_duration = 0
    /\ pio = 0
    /\ sm = [k \in 0 .. 2 |-> 0]
    /\ success = FALSE
    /\ dma_ch = [j \in 0 .. 1 |-> 0]
    /\ dma_cfg = [j \in 0 .. 1 |-> [enable |-> FALSE]]
    /\ sm_program = [ps \in PioSm |-> "none"]
    /\ sm_enabled = {}
    /\ tx_fifo = [ps \in PioSm |-> << >>]
    /\ osr = [ps \in PioSm |-> 0]
    /\ isr = [ps \in PioSm |-> 0]
    /\ dma_claimed = {}
    /\ dma = [ch \in DmaChannels |-> DmaIdle]
    /\ pulled = [ps \in PioSm |-> << >>]
    /\ written = [h1 |-> {}, h2 |-> {}]
    /\ raw = [h1 |-> spwm_h1_high_table, h2 |-> spwm_h2_high_table,
              s1 |-> 0, s2 |-> 0]

(***************************************************************************)
(* spwm_unipolar_arrays                                                    *)
(***************************************************************************)
\* main.cpp:145 calls; spwm_lut.cpp:71-139 set up the locals
SynthCall ==
    /\ pc = "call_synth"
    /\ syn' = SynInit(cfg)
    /\ pc' = "outer_test"
    /\ UNCHANGED <<blk, cfg, tables, signal_duration, locals, hw, pulled, written, raw>>

\* while (n < max_cycle_counts)
OuterTest ==
    /\ pc = "outer_test"
    /\ pc' = IF syn.n < max_cycle_counts(cfg) THEN "q1_est" ELSE "synth_final"
    /\ UNCHANGED <<blk, cfg, tables, syn, signal_duration, locals, hw, pulled, written, raw>>

\* Faulty variant of StartScan that leaves the carrier cycle's base
\* n * carrier_duration out of time_counter; the crossing property C17 must
\* tell it apart from the code.
StartScanNoBase(tri) ==
    [syn EXCEPT !.tri_time_counter = tri,
                !.time_counter = tri]

\* The time a quarter's scan starts from: tri_time_counter and time_counter
StartScan(tri) ==
    [syn EXCEPT !.tri_time_counter = tri,
                !.time_counter = (syn.n * carrier_duration(cfg)) + tri]

\* Faulty variant of Advance that leaves both counters where they are; the
\* termination property C19 must tell it apart from the code.
AdvanceStuck == syn

\* time_counter++; tri_time_counter++
Advance ==
    [syn EXCEPT !.time_counter = @ + 1, !.tri_time_counter = @ + 1]

\* The four mirrored stores of a leg 1 duration and the pointer moves
StoreLeg1(result, bound) ==
    /\ spwm_h1_high_table' =
          [spwm_h1_high_table EXCEPT ![syn.p_h1_ref1] = result,
                                     ![syn.p_h1_ref2] = result]
    /\ spwm_h2_high_table' =
          [spwm_h2_high_table EXCEPT ![syn.p_h2_ref3] = result,
                                     ![syn.p_h2_ref4] = result]
    /\ written' = [written EXCEPT
                          !.h1 = @ \cup {syn.p_h1_ref1, syn.p_h1_ref2},
                          !.h2 = @ \cup {syn.p_h2_ref3, syn.p_h2_ref4}]
    /\ syn' = [syn EXCEPT !.p_h1_ref1 = @ + 1,
                          !.p_h1_ref2 = @ - 1,
                          !.p_h2_ref3 = @ + 1,
                          !.p_h2_ref4 = @ - 1,
                          !.h1_high_val_old = syn.time_counter,
                          !.time_counter = @ + (bound - syn.tri_time_counter),
                          !.tri_time_counter = bound]

\* Faulty variant of StoreLeg2 that forgets the copy into leg 1's table;
\* the cross-leg relation C8 must tell it apart from the code.
StoreLeg2NoCopy(result, bound) ==
    /\ spwm_h2_high_table' =
          [spwm_h2_high_table EXCEPT ![syn.p_h2_ref1] = result,
                                     ![syn.p_h2_ref2] = result]
    /\ UNCHANGED spwm_h1_high_table
    /\ written' = [written EXCEPT
                          !.h2 = @ \cup {syn.p_h2_ref1, syn.p_h2_ref2}]
    /\ syn' = [syn EXCEPT !.p_h2_ref1 = @ + 1,
                          !.p_h2_ref2 = @ - 1,
                          !.p_h1_ref3 = @ + 1,
                          !.p_h1_ref4 = @ - 1,
                          !.h2_high_val_old = syn.time_counter,
                          !.time_counter = @ + (bound - syn.tri_time_counter),
                          !.tri_time_counter = bound]

\* The four mirrored stores of a leg 2 duration and the pointer moves
StoreLeg2(result, bound) ==
    /\ spwm_h2_high_table' =
          [spwm_h2_high_table EXCEPT ![syn.p_h2_ref1] = result,
                                     ![syn.p_h2_ref2] = result]
    /\ spwm_h1_high_table' =
          [spwm_h1_high_table EXCEPT ![syn.p_h1_ref3] = result,
                                     ![syn.p_h1_ref4] = result]
    /\ written' = [written EXCEPT
                          !.h2 = @ \cup {syn.p_h2_ref1, syn.p_h2_ref2},
                          !.h1 = @ \cup {syn.p_h1_ref3, syn.p_h1_ref4}]
    /\ syn' = [syn EXCEPT !.p_h2_ref1 = @ + 1,
                          !.p_h2_ref2 = @ - 1,
                          !.p_h1_ref3 = @ + 1,
                          !.p_h1_ref4 = @ - 1,
                          !.h2_high_val_old = syn.time_counter,
                          !.time_counter = @ + (bound - syn.tri_time_counter),
                          !.tri_time_counter = bound]

\* First quarter of the carrier: estimate (lines 157-180)
Q1Estimate ==
    /\ pc = "q1_est"
    /\ LET s1_amplitude ==
              SineAmplitude(cfg, (syn.n * carrier_duration(cfg))
                                   + carrier_duration_quarter(cfg))
       IN  syn' = StartScan((scaling_factor - s1_amplitude) \div carrier_slope(cfg))
    /\ pc' = "q1_loop"
    /\ UNCHANGED <<blk, cfg, tables, signal_duration, locals, hw, pulled, written, raw>>

\* First quarter: one pass of while (tri_time_counter < carrier_duration_quarter)
Q1Loop ==
    /\ pc = "q1_loop"
    /\ LET bound == carrier_duration_quarter(cfg)
           s1_amplitude == SineAmplitude(cfg, syn.time_counter)
           carrier_amplitude ==
               scaling_factor - (carrier_slope(cfg) * syn.tri_time_counter)
       IN  IF syn.tri_time_counter < bound
           THEN /\ pc' = "q1_loop"
                /\ IF s1_amplitude >= carrier_amplitude
                   THEN IF ~syn.s1_sync_captured
                        THEN /\ h1_sync_count' = syn.time_counter
                             /\ syn' = [syn EXCEPT
                                   !.s1_sync_captured = TRUE,
                                   !.h1_high_val_old = syn.time_counter,
                                   !.time_counter = @ + (bound - syn.tri_time_counter),
                                   !.tri_time_counter = bound]
                             /\ UNCHANGED <<spwm_h1_high_table, spwm_h2_high_table,
                                            h2_sync_count, written>>
                        ELSE /\ StoreLeg1(syn.time_counter - syn.h1_high_val_old, bound)
                             /\ UNCHANGED <<h1_sync_count, h2_sync_count>>
                   ELSE /\ syn' = Advance
                        /\ UNCHANGED <<tables, written>>
           ELSE /\ pc' = "q2_est"
                /\ UNCHANGED <<tables, written, syn>>
    /\ UNCHANGED <<blk, cfg, signal_duration, locals, hw, pulled, raw>>

\* Second quarter: estimate (lines 232-234)
Q2Estimate ==
    /\ pc = "q2_est"
    /\ LET s2_amplitude ==
              -SineAmplitude(cfg, (syn.n * carrier_duration(cfg))
                                    + carrier_duration_quarter(cfg))
       IN  syn' = StartScan((scaling_factor - s2_amplitude) \div carrier_slope(cfg))
    /\ pc' = "q2_loop"
    /\ UNCHANGED <<blk, cfg, tables, signal_duration, locals, hw, pulled, written, raw>>

\* Second quarter: one pass of while (tri_time_counter < carrier_duration_half)
Q2Loop ==
    /\ pc = "q2_loop"
    /\ LET bound == carrier_duration_half(cfg)
           s2_amplitude == -SineAmplitude(cfg, syn.time_counter)
           carrier_amplitude ==
               scaling_factor - (carrier_slope(cfg) * syn.tri_time_counter)
           sum == h1_sync_count + syn.time_counter
       IN  IF syn.tri_time_counter < bound
           THEN /\ pc' = "q2_loop"
                /\ IF s2_amplitude >= carrier_amplitude
                   THEN IF ~syn.s2_sync_captured
                        THEN /\ h2_sync_count' = syn.time_counter
                             /\ spwm_h1_high_table' =
                                   [spwm_h1_high_table EXCEPT
                                       ![array_mid_point(cfg)] = sum,
                                       ![array_end_point(cfg)] = sum]
                             /\ spwm_h2_high_table' =
                                   [spwm_h2_high_table EXCEPT
                                       ![array_mid_point(cfg)] = sum,
                                       ![array_end_point(cfg)] = sum]
                             /\ syn' = [syn EXCEPT
                                   !.s2_sync_captured = TRUE,
                                   !.h2_high_val_old = syn.time_counter,
                                   !.time_counter = @ + (bound - syn.tri_time_counter),
                                   !.tri_time_counter = bound]
                             /\ written' = [written EXCEPT
                                   !.h1 = @ \cup {array_mid_point(cfg), array_end_point(cfg)},
                                   !.h2 = @ \cup {array_mid_point(cfg), array_end_point(cfg)}]
                             /\ UNCHANGED h1_sync_count
                        ELSE /\ StoreLeg2(syn.time_counter - syn.h2_high_val_old, bound)
                             /\ UNCHANGED <<h1_sync_count, h2_sync_count>>
                   ELSE /\ syn' = Advance
                        /\ UNCHANGED <<tables, written>>
           ELSE /\ pc' = "q3_est"
                /\ UNCHANGED <<tables, written, syn>>
    /\ UNCHANGED <<blk, cfg, signal_duration, locals, hw, pulled, raw>>

\* Third quarter: estimate (lines 287-289)
Q3Estimate ==
    /\ pc = "q3_est"
    /\ LET s2_amplitude ==
              -SineAmplitude(cfg, (syn.n * carrier_duration(cfg))
                                    + carrier_duration_3_quarter(cfg))
       IN  syn' = StartScan(((scaling_factor + s2_amplitude) \div carrier_slope(cfg))
                              + carrier_duration_half(cfg))
    /\ pc' = "q3_loop"
    /\ UNCHANGED <<blk, cfg, tables, signal_duration, locals, hw, pulled, written, raw>>

\* Third quarter: one pass of while (tri_time_counter < carrier_duration_3_quarter)
Q3Loop ==
    /\ pc = "q3_loop"
    /\ LET bound == carrier_duration_3_quarter(cfg)
           s2_amplitude == -SineAmplitude(cfg, syn.time_counter)
           carrier_amplitude ==
               (-scaling_factor)
                 + (carrier_slope(cfg) * (syn.tri_time_counter - carrier_duration_half(cfg)))
       IN  IF syn.tri_time_counter < bound
           THEN /\ pc' = "q3_loop"
                /\ IF carrier_amplitude >= s2_amplitude
                   THEN /\ StoreLeg2(syn.time_counter - syn.h2_high_val_old, bound)
                        /\ UNCHANGED <<h1_sync_count, h2_sync_count>>
                   ELSE /\ syn' = Advance
                        /\ UNCHANGED <<tables, written>>
           ELSE /\ pc' = "q4_est"
                /\ UNCHANGED <<tables, written, syn>>
    /\ UNCHANGED <<blk, cfg, signal_duration, locals, hw, pulled, raw>>

\* Fourth quarter: estimate (lines 324-326)
Q4Estimate ==
    /\ pc = "q4_est"
    /\ LET s1_amplitude ==
              SineAmplitude(cfg, (syn.n * carrier_duration(cfg))
                                   + carrier_duration_3_quarter(cfg))
       IN  syn' = StartScan(((scaling_factor + s1_amplitude) \div carrier_slope(cfg))
                              + carrier_duration_half(cfg))
    /\ pc' = "q4_loop"
    /\ UNCHANGED <<blk, cfg, tables, signal_duration, locals, hw, pulled, written, raw>>

\* Fourth quarter: one pass of while (tri_time_counter < carrier_duration),
\* and n++ (line 359) when the loop is left
Q4Loop ==
    /\ pc = "q4_loop"
    /\ LET bound == carrier_duration(cfg)
           s1_amplitude == SineAmplitude(cfg, syn.time_counter)
           carrier_amplitude ==
               (-scaling_factor)
                 + (carrier_slope(cfg) * (syn.tri_time_counter - carrier_duration_half(cfg)))
       IN  IF syn.tri_time_counter < bound
           THEN /\ pc' = "q4_loop"
                /\ IF carrier_amplitude >= s1_amplitude
                   THEN /\ StoreLeg1(syn.time_counter - syn.h1_high_val_old, bound)
                        /\ UNCHANGED <<h1_sync_count, h2_sync_count>>
                   ELSE /\ syn' = Advance
                        /\ UNCHANGED <<tables, written>>
           ELSE /\ pc' = "outer_test"
                /\ syn' = [syn EXCEPT !.n = @ + 1]
                /\ UNCHANGED <<tables, written>>
    /\ UNCHANGED <<blk, cfg, signal_duration, locals, hw, pulled, raw>>

\* Faulty variant of SynthReturn that returns without storing the last OFF
\* durations; the positivity property C4 must tell it apart from the code.
SynthReturnNoLastOff ==
    /\ pc = "synth_final"
    /\ raw' = [h1 |-> spwm_h1_high_table, h2 |-> spwm_h2_high_table,
               s1 |-> h1_sync_count, s2 |-> h2_sync_count]
    /\ signal_duration' = synth_signal_duration(cfg)
    /\ pc' = "adjust_h1_sync"
    /\ UNCHANGED <<blk, cfg, tables, syn, locals, hw, pulled, written>>

\* The last OFF duration of each leg (lines 376-383) and the return (385)
SynthReturn ==
    /\ pc = "synth_final"
    /\ LET result1 == 2 * (signal_duration_quarter(cfg) - syn.h1_high_val_old)
           result2 == 2 * (signal_duration_quarter(cfg) - syn.h2_high_val_old)
       IN  /\ spwm_h1_high_table' =
                 [[spwm_h1_high_table EXCEPT ![syn.p_h1_ref1] = result1]
                                      EXCEPT ![syn.p_h1_ref3] = result2]
           /\ spwm_h2_high_table' =
                 [[spwm_h2_high_table EXCEPT ![syn.p_h2_ref3] = result1]
                                      EXCEPT ![syn.p_h2_ref1] = result2]
    /\ written' = [written EXCEPT !.h1 = @ \cup {syn.p_h1_ref1, syn.p_h1_ref3},
                                  !.h2 = @ \cup {syn.p_h2_ref3, syn.p_h2_ref1}]
    /\ raw' = [h1 |-> spwm_h1_high_table', h2 |-> spwm_h2_high_table',
               s1 |-> h1_sync_count, s2 |-> h2_sync_count]
    /\ signal_duration' = synth_signal_duration(cfg)
    /\ pc' = "adjust_h1_sync"
    /\ UNCHANGED <<blk, cfg, h1_sync_count, h2_sync_count, syn, locals, hw, pulled>>

(***************************************************************************)
(* main(): dead-time adjustment (lines 151-171)                            *)
(***************************************************************************)
\* Faulty variant of Adjusted that subtracts the net dead time instead of
\* DEAD_TIME; the adjustment property C3 must tell it apart from the code.
AdjustedNet(v) == v - NET_DEADTIME_COUNT - IE_DELAY_COMPENSATION

\* value - DEAD_TIME - IE_DELAY_COMPENSATION (lines 155, 159, 164, 167)
Adjusted(v) == v - DEAD_TIME - IE_DELAY_COMPENSATION

\* line 155
AdjustH1Sync ==
    /\ pc = "adjust_h1_sync"
    /\ h1_sync_count' = Adjusted(h1_sync_count)
    /\ pc' = "adjust_h2_sync"
    /\ UNCHANGED <<blk, cfg, spwm_h1_high_table, spwm_h2_high_table, h2_sync_count,
                   syn, signal_duration, locals, hw, pulled, written, raw>>

\* line 159, and the loop's i = 0
AdjustH2Sync ==
    /\ pc = "adjust_h2_sync"
    /\ h2_sync_count' = Adjusted(h2_sync_count)
    /\ adj_i' = 0
    /\ pc' = "adjust_loop"
    /\ UNCHANGED <<blk, cfg, spwm_h1_high_table, spwm_h2_high_table, h1_sync_count,
                   syn, signal_duration, sync_out_half_duration, pio, sm, success,
                   dma_ch, dma_cfg, hw, pulled, written, raw>>

\* One pass of for (i = 0; i < MOD_INDEX_MF*2; i++) (lines 162-169)
AdjustLoop ==
    /\ pc = "adjust_loop"
    /\ IF adj_i < cfg.mf * 2
       THEN /\ spwm_h1_high_table' =
                  [spwm_h1_high_table EXCEPT ![adj_i] = Adjusted(@)]
            /\ spwm_h2_high_table' =
                  [spwm_h2_high_table EXCEPT ![adj_i] = Adjusted(@)]
            /\ adj_i' = adj_i + 1
            /\ pc' = "adjust_loop"
       ELSE /\ pc' = "half_duration"
            /\ UNCHANGED <<spwm_h1_high_table, spwm_h2_high_table, adj_i>>
    /\ UNCHANGED <<blk, cfg, h1_sync_count, h2_sync_count, syn, signal_duration,
                   sync_out_half_duration, pio, sm, success, dma_ch, dma_cfg, hw, pulled, written, raw>>

\* Faulty variant of SyncOutHalfDuration that subtracts IE_DELAY_COMPENSATION;
\* the half-period property C11 must tell it apart from the code.
SyncOutHalfDurationIE ==
    /\ pc = "half_duration"
    /\ sync_out_half_duration' = (signal_duration \div 2) - IE_DELAY_COMPENSATION
    /\ blk' = 0
    /\ pc' = "claim_sm"
    /\ UNCHANGED <<cfg, tables, syn, signal_duration, adj_i, pio, sm, success,
                   dma_ch, dma_cfg, hw, pulled, written, raw>>

\* line 171
SyncOutHalfDuration ==
    /\ pc = "half_duration"
    /\ sync_out_half_duration' = (signal_duration \div 2) - DEADTIME_COMPENSATION
    /\ blk' = 0
    /\ pc' = "claim_sm"
    /\ UNCHANGED <<cfg, tables, syn, signal_duration, adj_i, pio, sm, success,
                   dma_ch, dma_cfg, hw, pulled, written, raw>>

(***************************************************************************)
(* main(): the three setup blocks (lines 192-250).  Block 0 sets up the    *)
(* H1 state machine, block 1 the H2 one, block 2 the sync-out one.         *)
(***************************************************************************)
\* The program a block loads: spwm_h1_program, spwm_h2_program, sync_out_program
ProgramOf(k) == <<"spwm_h1", "spwm_h2", "sync_out">>[k + 1]

\* The state machine the current block's calls address: (pio, sm[k])
Cur == <<pio, sm[blk]>>

FreeSms(p) == {x \in Sms : sm_program[<<p, x>>] = "none"}

LowestOf(S) == CHOOSE x \in S : \A y \in S : x <= y

\* pio_claim_free_sm_and_add_program_for_gpio_range (lines 192, 216, 238):
\* on success it stores the block and the state machine it found through
\* &pio and &sm[k]; which block has room is the SDK's choice.
ClaimSm ==
    /\ pc = "claim_sm"
    /\ \/ \E p \in Pios :
             /\ FreeSms(p) # {}
             /\ pio' = p
             /\ sm' = [sm EXCEPT ![blk] = LowestOf(FreeSms(p))]
             /\ sm_program' =
                   [sm_program EXCEPT ![<<p, LowestOf(FreeSms(p))>>] = ProgramOf(blk)]
             /\ success' = TRUE
       \/ /\ success' = FALSE
          /\ UNCHANGED <<pio, sm, sm_program>>
    /\ pc' = "assert_sm"
    /\ UNCHANGED <<blk, cfg, tables, syn, signal_duration, adj_i,
                   sync_out_half_duration, dma_ch, dma_cfg, sm_enabled, tx_fifo, osr, isr,
                   dma_claimed, dma, pulled, written, raw>>

\* Faulty variant of AssertSm that only prints and goes on; the abort
\* property C10 must tell it apart from the code.
AssertSmContinue ==
    /\ pc = "assert_sm"
    /\ pc' = "program_init"
    /\ UNCHANGED <<blk, cfg, tables, syn, signal_duration, locals, hw, pulled, written, raw>>

\* hard_assert(success) (lines 193-194, 217-218, 240-241)
AssertSm ==
    /\ pc = "assert_sm"
    /\ pc' = IF success THEN "program_init" ELSE "panic"
    /\ UNCHANGED <<blk, cfg, tables, syn, signal_duration, locals, hw, pulled, written, raw>>

\* spwm_h1/spwm_h2/sync_out_program_init (lines 196, 220, 243): the state
\* machine is configured and left disabled (comments at 197, 228, 244)
ProgramInit ==
    /\ pc = "program_init"
    /\ sm_enabled' = sm_enabled \ {Cur}
    /\ pc' = "clear_fifos"
    /\ UNCHANGED <<blk, cfg, tables, syn, signal_duration, locals, sm_program,
                   tx_fifo, osr, isr, dma_claimed, dma, pulled, written, raw>>

\* pio_sm_clear_fifos (lines 201, 223, 247)
ClearFifos ==
    /\ pc = "clear_fifos"
    /\ tx_fifo' = [tx_fifo EXCEPT ![Cur] = << >>]
    /\ pc' = "put_const"
    /\ UNCHANGED <<blk, cfg, tables, syn, signal_duration, locals, sm_program,
                   sm_enabled, osr, isr, dma_claimed, dma, pulled, written, raw>>

\* pio_sm_put: the word enters the TX FIFO unless the FIFO is full
FifoPut(f, v) == IF Len(f) < TxFifoDepth THEN Append(f, v) ELSE f

\* Faulty variant of PutConst that loads DEAD_TIME without the compensation;
\* the load-order property C13 must tell it apart from the code.
PutConstDeadTime ==
    /\ pc = "put_const"
    /\ tx_fifo' = [tx_fifo EXCEPT ![Cur] =
                      FifoPut(@, IF blk = 2 THEN sync_out_half_duration
                                            ELSE DEAD_TIME)]
    /\ pc' = "exec_pull"
    /\ UNCHANGED <<blk, cfg, tables, syn, signal_duration, locals, sm_program,
                   sm_enabled, osr, isr, dma_claimed, dma, pulled, written, raw>>

\* pio_sm_put of the constant (lines 202, 224, 248)
PutConst ==
    /\ pc = "put_const"
    /\ tx_fifo' = [tx_fifo EXCEPT ![Cur] =
                      FifoPut(@, IF blk = 2 THEN sync_out_half_duration
                                            ELSE NET_DEADTIME_COUNT)]
    /\ pc' = "exec_pull"
    /\ UNCHANGED <<blk, cfg, tables, syn, signal_duration, locals, sm_program,
                   sm_enabled, osr, isr, dma_claimed, dma, pulled, written, raw>>

\* pio_sm_exec(pull noblock) (lines 203, 225, 249): the head of the TX FIFO
\* moves into the OSR
ExecPull ==
    /\ pc = "exec_pull"
    /\ IF tx_fifo[Cur] # << >>
       THEN /\ osr' = [osr EXCEPT ![Cur] = Head(tx_fifo[Cur])]
            /\ tx_fifo' = [tx_fifo EXCEPT ![Cur] = Tail(@)]
       ELSE UNCHANGED <<osr, tx_fifo>>
    /\ pc' = "exec_out"
    /\ UNCHANGED <<blk, cfg, tables, syn, signal_duration, locals, sm_program,
                   sm_enabled, isr, dma_claimed, dma, pulled, written, raw>>

\* Faulty variant of ExecOutIsr after which the sync count is never put;
\* the ordering property C2 must tell it apart from the code.
ExecOutIsrNoSync ==
    /\ pc = "exec_out"
    /\ isr' = [isr EXCEPT ![Cur] = osr[Cur]]
    /\ osr' = [osr EXCEPT ![Cur] = 0]
    /\ pc' = IF blk = 2 THEN "start" ELSE "dma_claim"
    /\ UNCHANGED <<blk, cfg, tables, syn, signal_duration, locals, sm_program,
                   sm_enabled, tx_fifo, dma_claimed, dma, pulled, written, raw>>

\* pio_sm_exec(out isr, 32) (lines 204, 226, 250): the OSR is shifted into the ISR
ExecOutIsr ==
    /\ pc = "exec_out"
    /\ isr' = [isr EXCEPT ![Cur] = osr[Cur]]
    /\ osr' = [osr EXCEPT ![Cur] = 0]
    /\ pc' = IF blk = 2 THEN "start" ELSE "put_sync"
    /\ UNCHANGED <<blk, cfg, tables, syn, signal_duration, locals, sm_program,
                   sm_enabled, tx_fifo, dma_claimed, dma, pulled, written, raw>>

\* pio_sm_put of the leg's sync count (lines 205, 227)
PutSync ==
    /\ pc = "put_sync"
    /\ tx_fifo' = [tx_fifo EXCEPT ![Cur] =
                      FifoPut(@, IF blk = 0 THEN h1_sync_count ELSE h2_sync_count)]
    /\ pc' = "dma_claim"
    /\ UNCHANGED <<blk, cfg, tables, syn, signal_duration, locals, sm_program,
                   sm_enabled, osr, isr, dma_claimed, dma, pulled, written, raw>>

\* dma_claim_unused_channel(true) (lines 209, 231): panics when none is free
DmaClaim ==
    /\ pc = "dma_claim"
    /\ \/ /\ DmaChannels \ dma_claimed # {}
          /\ dma_ch' = [dma_ch EXCEPT ![blk] = LowestOf(DmaChannels \ dma_claimed)]
          /\ dma_claimed' = dma_claimed \cup {LowestOf(DmaChannels \ dma_claimed)}
          /\ pc' = "dma_config"
       \/ /\ pc' = "panic"
          /\ UNCHANGED <<dma_ch, dma_cfg, dma_claimed>>
    /\ UNCHANGED <<blk, cfg, tables, syn, signal_duration, adj_i,
                   sync_out_half_duration, pio, sm, success, dma_cfg, sm_program,
                   sm_enabled, tx_fifo, osr, isr, dma, pulled, written, raw>>

\* dma_channel_get_default_config (lines 210, 232), whose enable field is
\* set, and configure_dma_for_pio (lines 73-116, called at 211, 233): the
\* channel reads the leg's table as a ring, writes the state machine's TX
\* FIFO, is paced by that FIFO's DREQ and is triggered at once
ConfigureDma ==
    /\ pc = "dma_config"
    /\ dma_cfg' = [dma_cfg EXCEPT ![blk] = [enable |-> TRUE]]
    /\ dma' = [dma EXCEPT ![dma_ch[blk]] =
                  [active |-> TRUE, target |-> Cur, table |-> blk + 1,
                   read_index |-> 0, ring_words |-> RingWords, sent |-> 0]]
    /\ blk' = blk + 1
    /\ pc' = "claim_sm"
    /\ UNCHANGED <<cfg, tables, syn, signal_duration, adj_i, sync_out_half_duration,
                   pio, sm, success, dma_ch, sm_program, sm_enabled, tx_fifo, osr,
                   isr, dma_claimed, pulled, written, raw>>

\* Faulty variant of DmaTransfer that ignores the FIFO's DREQ: the read address
\* advances although the FIFO is full and the word is dropped; the
\* pre-start bound of property C14 must tell it apart from the code.
DmaTransferUnpaced ==
    \E ch \in DmaChannels :
       /\ dma[ch].active
       /\ tx_fifo' = [tx_fifo EXCEPT ![dma[ch].target] =
             FifoPut(@, IF dma[ch].table = 1
                        THEN spwm_h1_high_table[dma[ch].read_index]
                        ELSE spwm_h2_high_table[dma[ch].read_index])]
       /\ dma' = [dma EXCEPT ![ch].read_index = (@ + 1) % dma[ch].ring_words,
                             ![ch].sent = @ + 1]
       /\ UNCHANGED <<pc, blk, cfg, tables, syn, signal_duration, locals,
                      sm_program, sm_enabled, osr, isr, dma_claimed, pulled, written, raw>>

\* One transfer of a triggered channel: a word of the table goes to the TX
\* FIFO while the FIFO raises its DREQ (is not full); the read address wraps
\* at the ring size (lines 86-93, 98-107)
DmaTransfer ==
    \E ch \in DmaChannels :
       /\ dma[ch].active
       /\ Len(tx_fifo[dma[ch].target]) < TxFifoDepth
       /\ tx_fifo' = [tx_fifo EXCEPT ![dma[ch].target] =
             Append(@, IF dma[ch].table = 1
                       THEN spwm_h1_high_table[dma[ch].read_index]
                       ELSE spwm_h2_high_table[dma[ch].read_index])]
       /\ dma' = [dma EXCEPT ![ch].read_index = (@ + 1) % dma[ch].ring_words,
                             ![ch].sent = @ + 1]
       /\ UNCHANGED <<pc, blk, cfg, tables, syn, signal_duration, locals,
                      sm_program, sm_enabled, osr, isr, dma_claimed, pulled, written, raw>>

\* pio_enable_sm_mask_in_sync(pio, (1<<sm[0]) | (1<<sm[1]) | (1<<sm[2]))
\* (line 258): one register write sets the enable bits of the mask in the
\* block pio names
StartAll ==
    /\ pc = "start"
    /\ sm_enabled' = sm_enabled \cup {<<pio, sm[k]>> : k \in 0 .. 2}
    /\ pc' = "idle"
    /\ UNCHANGED <<blk, cfg, tables, syn, signal_duration, locals, sm_program,
                   tx_fifo, osr, isr, dma_claimed, dma, pulled, written, raw>>

\* An enabled leg state machine takes the next word of its TX FIFO (one
\* duration per output transition); the spwm_h1/spwm_h2 programs are not
\* part of the sources, their consumption is as the specification gives it
SmPull ==
    \E ps \in sm_enabled :
       /\ sm_program[ps] \in {"spwm_h1", "spwm_h2"}
       /\ tx_fifo[ps] # << >>
       /\ Len(pulled[ps]) < MaxPulled
       /\ osr' = [osr EXCEPT ![ps] = Head(tx_fifo[ps])]
       /\ tx_fifo' = [tx_fifo EXCEPT ![ps] = Tail(@)]
       /\ pulled' = [pulled EXCEPT ![ps] = Append(@, Head(tx_fifo[ps]))]
       /\ UNCHANGED <<pc, blk, cfg, tables, syn, signal_duration, locals,
                      sm_program, sm_enabled, isr, dma_claimed, dma, written, raw>>

\* while (true) sleep_ms(100) (lines 262-265)
Idle ==
    /\ pc = "idle"
    /\ UNCHANGED vars

Next ==
    \/ SynthCall
    \/ OuterTest
    \/ Q1Estimate
    \/ Q1Loop
    \/ Q2Estimate
    \/ Q2Loop
    \/ Q3Estimate
    \/ Q3Loop
    \/ Q4Estimate
    \/ Q4Loop
    \/ SynthReturn
    \/ AdjustH1Sync
    \/ AdjustH2Sync
    \/ AdjustLoop
    \/ SyncOutHalfDuration
    \/ ClaimSm
    \/ AssertSm
    \/ ProgramInit
    \/ ClearFifos
    \/ PutConst
    \/ ExecPull
    \/ ExecOutIsr
    \/ PutSync
    \/ DmaClaim
    \/ ConfigureDma
    \/ DmaTransfer
    \/ StartAll
    \/ SmPull
    \/ Idle

Spec == Init /\ [][Next]_vars

\* One step of the processor through main(): every statement up to the loop
\* of lines 262-265
MainStep ==
    \/ SynthCall
    \/ OuterTest
    \/ Q1Estimate
    \/ Q1Loop
    \/ Q2Estimate
    \/ Q2Loop
    \/ Q3Estimate
    \/ Q3Loop
    \/ Q4Estimate
    \/ Q4Loop
    \/ SynthReturn
    \/ AdjustH1Sync
    \/ AdjustH2Sync
    \/ AdjustLoop
    \/ SyncOutHalfDuration
    \/ ClaimSm
    \/ AssertSm
    \/ ProgramInit
    \/ ClearFifos
    \/ PutConst
    \/ ExecPull
    \/ ExecOutIsr
    \/ PutSync
    \/ DmaClaim
    \/ ConfigureDma
    \/ StartAll

\* The processor keeps executing main(): a statement that can run does run
SpecFair == Init /\ [][Next]_vars /\ WF_vars(MainStep)

(***************************************************************************)
(* main(): the shutdown statements (lines 267-283).  The loop of lines     *)
(* 262-265 has no exit, so Spec never runs them; SpecShutdown adds the     *)
(* exit the comment of line 260 and the commented-out loop condition of    *)
(* line 261 describe, to examine the statements as written.                *)
(***************************************************************************)
\* A key press ends the loop (lines 260-261, commented out in the source)
LeaveLoop ==
    /\ pc = "idle"
    /\ pc' = "dma_disable"
    /\ UNCHANGED <<blk, cfg, tables, syn, signal_duration, locals, hw, pulled, written, raw>>

\* channel_config_set_enable(&dma_cfg0, false); channel_config_set_enable(
\* &dma_cfg1, false) (lines 270-271): the enable field of main's two
\* configuration structs is cleared; no channel register is written
ShutdownDmaCfg ==
    /\ pc = "dma_disable"
    /\ dma_cfg' = [j \in 0 .. 1 |-> [enable |-> FALSE]]
    /\ pc' = "sm_disable"
    /\ UNCHANGED <<blk, cfg, tables, syn, signal_duration, adj_i, sync_out_half_duration,
                   pio, sm, success, dma_ch, hw, pulled, written, raw>>

\* The bits of the mask (0 << sm[0]) | (0 << sm[1]) | (0 << sm[2]) (line 277)
ShutdownMask == {x \in Sms : FALSE}

\* pio_enable_sm_mask_in_sync(pio, mask) (line 277): the enable bits of the
\* mask are set in the block pio names
ShutdownSmMask ==
    /\ pc = "sm_disable"
    /\ sm_enabled' = sm_enabled \cup {<<pio, x>> : x \in ShutdownMask}
    /\ blk' = 0
    /\ pc' = "remove_program"
    /\ UNCHANGED <<cfg, tables, syn, signal_duration, locals, sm_program,
                   tx_fifo, osr, isr, dma_claimed, dma, pulled, written, raw>>

\* pio_remove_program_and_unclaim_sm(program, pio, sm[k], offset[k])
\* (lines 281-283): the program is removed and the state machine unclaimed;
\* its enable bit is not touched
RemoveProgram ==
    /\ pc = "remove_program"
    /\ sm_program' = [sm_program EXCEPT ![Cur] = "none"]
    /\ blk' = IF blk < 2 THEN blk + 1 ELSE blk
    /\ pc' = IF blk < 2 THEN "remove_program" ELSE "exit"
    /\ UNCHANGED <<cfg, tables, syn, signal_duration, locals, sm_enabled,
                   tx_fifo, osr, isr, dma_claimed, dma, pulled, written, raw>>

NextShutdown ==
    \/ Next
    \/ LeaveLoop
    \/ ShutdownDmaCfg
    \/ ShutdownSmMask
    \/ RemoveProgram

SpecShutdown == Init /\ [][NextShutdown]_vars

(***************************************************************************)
(* Properties                                                              *)
(***************************************************************************)
\* Indices of a table the configuration uses: 0 .. 2*mf-1
Used(c) == 0 .. ((2 * c.mf) - 1)

SynthPcs == {"call_synth", "outer_test", "q1_est", "q1_loop", "q2_est", "q2_loop",
             "q3_est", "q3_loop", "q4_est", "q4_loop", "synth_final"}

\* spwm_unipolar_arrays has returned
SynthReturned == pc \notin SynthPcs

\* The adjustment of lines 155-169 is complete
AdjustDone == SynthReturned /\ pc \notin {"adjust_h1_sync", "adjust_h2_sync", "adjust_loop"}

\* Table entry i has been through its pass of the adjustment loop
EntryAdjusted(i) == AdjustDone \/ (pc = "adjust_loop" /\ i < adj_i)

\* The state machine running program prog is enabled
Running(prog) == \E ps \in PioSm : sm_program[ps] = prog /\ ps \in sm_enabled

\* Block k's sync count is at the head of the TX FIFO of block k's state machine
SyncAtHead(k) ==
    \E ps \in PioSm :
       /\ sm_program[ps] = ProgramOf(k)
       /\ tx_fifo[ps] # << >>
       /\ Head(tx_fifo[ps]) = (IF k = 0 THEN h1_sync_count ELSE h2_sync_count)

RECURSIVE SumTo(_, _)
\* t[0] + ... + t[k-1]
SumTo(t, k) == IF k = 0 THEN 0 ELSE t[k - 1] + SumTo(t, k - 1)

\* C1: in every reachable state the H1, the H2 and the sync-out state machine
\* are either all disabled or all enabled.
C1_AllOrNoneEnabled ==
    /\ Running("spwm_h1") = Running("spwm_h2")
    /\ Running("spwm_h2") = Running("sync_out")

\* C2: the step that enables the first state machine is taken only after the
\* synthesizer returned, every used entry of both tables and both sync counts
\* were adjusted, and each leg's adjusted sync count was put into its state
\* machine's TX FIFO; once a state machine is enabled no table entry and no
\* sync count changes any more.
C2_StartAfterTablesAndSync ==
    /\ [][(sm_enabled = {} /\ sm_enabled' # {}) =>
             /\ SynthReturned
             /\ signal_duration = synth_signal_duration(cfg)
             /\ AdjustDone
             /\ adj_i = 2 * cfg.mf
             /\ \A i \in Used(cfg) :
                   /\ spwm_h1_high_table[i] = Adjusted(raw.h1[i])
                   /\ spwm_h2_high_table[i] = Adjusted(raw.h2[i])
             /\ h1_sync_count = Adjusted(raw.s1)
             /\ h2_sync_count = Adjusted(raw.s2)
             /\ SyncAtHead(0)
             /\ SyncAtHead(1)]_vars
    /\ [][sm_enabled # {} => UNCHANGED tables]_vars

C2_Witness ==
    /\ pc = "idle"
    /\ sm_enabled # {}
    /\ cfg = Cfg(255, 8, 50000)
    /\ h1_sync_count = 12226 - DEAD_TIME - IE_DELAY_COMPENSATION
    /\ SyncAtHead(0)
    /\ SyncAtHead(1)

\* C3 (as the code has it): after the synthesizer returned, every used table
\* entry of both legs that the adjustment loop has passed, and each sync count
\* once its statement has run, equals raw - DEAD_TIME - IE_DELAY_COMPENSATION,
\* and every value not yet reached still equals raw: each is adjusted once.
C3_AdjustedByDeadTimeAndDelay ==
    SynthReturned =>
       /\ \A i \in Used(cfg) :
             /\ spwm_h1_high_table[i] =
                   IF EntryAdjusted(i)
                   THEN raw.h1[i] - DEAD_TIME - IE_DELAY_COMPENSATION ELSE raw.h1[i]
             /\ spwm_h2_high_table[i] =
                   IF EntryAdjusted(i)
                   THEN raw.h2[i] - DEAD_TIME - IE_DELAY_COMPENSATION ELSE raw.h2[i]
       /\ h1_sync_count =
             IF pc = "adjust_h1_sync"
             THEN raw.s1 ELSE raw.s1 - DEAD_TIME - IE_DELAY_COMPENSATION
       /\ h2_sync_count =
             IF pc \in {"adjust_h1_sync", "adjust_h2_sync"}
             THEN raw.s2 ELSE raw.s2 - DEAD_TIME - IE_DELAY_COMPENSATION

C3_Witness ==
    /\ AdjustDone
    /\ cfg = Cfg(255, 8, 50000)
    /\ raw.h1[0] = 24975
    /\ spwm_h1_high_table[0] = 24922
    /\ raw.h2[15] = 24695
    /\ spwm_h2_high_table[15] = 24642
    /\ raw.s1 = 12226
    /\ h1_sync_count = 12173

\* C3 as stated: after the adjustment every used table entry and both sync
\* counts equal raw - (DEAD_TIME - DEADTIME_COMPENSATION) - IE_DELAY_COMPENSATION.
C3_AdjustedByNetDeadTime ==
    AdjustDone =>
       /\ \A i \in Used(cfg) :
             /\ spwm_h1_high_table[i] =
                   raw.h1[i] - (DEAD_TIME - DEADTIME_COMPENSATION) - IE_DELAY_COMPENSATION
             /\ spwm_h2_high_table[i] =
                   raw.h2[i] - (DEAD_TIME - DEADTIME_COMPENSATION) - IE_DELAY_COMPENSATION
       /\ h1_sync_count =
             raw.s1 - (DEAD_TIME - DEADTIME_COMPENSATION) - IE_DELAY_COMPENSATION
       /\ h2_sync_count =
             raw.s2 - (DEAD_TIME - DEADTIME_COMPENSATION) - IE_DELAY_COMPENSATION

\* C4: with the compiled constants, after the adjustment every used entry of
\* both tables and both sync counts are strictly positive (no subtraction
\* wrapped), and so is every word waiting in a TX FIFO.
C4_CompiledAdjustedPositive ==
    (cfg = CompiledConfig /\ AdjustDone) =>
       /\ \A i \in Used(cfg) :
             spwm_h1_high_table[i] > 0 /\ spwm_h2_high_table[i] > 0
       /\ h1_sync_count > 0
       /\ h2_sync_count > 0
       /\ \A ps \in PioSm : \A k \in 1 .. Len(tx_fifo[ps]) : tx_fifo[ps][k] > 0

C4_Witness ==
    /\ cfg = CompiledConfig
    /\ pc = "idle"
    /\ \E ps \in PioSm : sm_program[ps] = "spwm_h1" /\ Len(tx_fifo[ps]) = TxFifoDepth
    /\ \E i \in Used(cfg) : spwm_h1_high_table[i] = 780 - DEAD_TIME - IE_DELAY_COMPENSATION

\* C5: for every valid configuration, after the synthesizer returned the
\* 2*mf entries of each leg's table sum to the returned signal period.
C5_TableSumsToPeriod ==
    (ValidConfig(cfg) /\ SynthReturned) =>
       /\ signal_duration = cfg.mf * 4 * carrier_duration_quarter(cfg)
       /\ SumTo(raw.h1, 2 * cfg.mf) = signal_duration
       /\ SumTo(raw.h2, 2 * cfg.mf) = signal_duration

\* C6: for every valid configuration the synthesizer stores to no index
\* outside 0 .. 2*mf-1, and when it has returned it has stored to every index
\* 0 .. 2*mf-1 of each table.
C6_EveryIndexWritten ==
    ValidConfig(cfg) =>
       /\ written.h1 \subseteq Used(cfg)
       /\ written.h2 \subseteq Used(cfg)
       /\ SynthReturned => (written.h1 = Used(cfg) /\ written.h2 = Used(cfg))

\* C7: after synthesis each leg's table is mirror-symmetric within each
\* half-cycle: table[i] = table[mf-2-i] and table[mf+i] = table[2*mf-2-i]
\* for every i in [0, mf-2).
C7_MirrorSymmetry ==
    SynthReturned =>
       \A i \in 0 .. (cfg.mf - 3) :
          /\ raw.h1[i] = raw.h1[cfg.mf - 2 - i]
          /\ raw.h1[cfg.mf + i] = raw.h1[(2 * cfg.mf) - 2 - i]
          /\ raw.h2[i] = raw.h2[cfg.mf - 2 - i]
          /\ raw.h2[cfg.mf + i] = raw.h2[(2 * cfg.mf) - 2 - i]

\* C8: after synthesis leg 2's table is leg 1's table rotated by one
\* half-cycle: leg2[(i + mf) mod 2*mf] = leg1[i] for every i in [0, 2*mf).
C8_CrossLegRotation ==
    SynthReturned =>
       \A i \in Used(cfg) : raw.h2[(i + cfg.mf) % (2 * cfg.mf)] = raw.h1[i]

C8_Witness ==
    /\ SynthReturned
    /\ cfg = Cfg(255, 8, 50000)
    /\ raw.h1[0] = 24975
    /\ raw.h2[8] = 24975
    /\ raw.h2[0] = 24044
    /\ raw.h1[8] = 24044

\* C9: a configuration whose mf is not a positive multiple of 4 or whose ma
\* is not strictly between 0 and 1 is rejected before synthesis: no table
\* entry and no sync count is ever written and no state machine is enabled.
C9_InvalidConfigRejected ==
    ~ValidConfig(cfg) =>
       /\ written.h1 = {}
       /\ written.h2 = {}
       /\ h1_sync_count = 0
       /\ h2_sync_count = 0
       /\ sm_enabled = {}

\* A state machine claim or a DMA channel claim has failed
AcquisitionFailed == pc = "panic" \/ (pc = "assert_sm" /\ ~success)

\* C10: once a state machine claim or a DMA channel claim has failed, setup
\* goes no further than the abort: no claim is tried again, the start is
\* never executed and no state machine is ever enabled.
C10_FailedAcquisitionAborts ==
    [](AcquisitionFailed => [](sm_enabled = {} /\ pc \in {"assert_sm", "panic"}))

C10_Witness ==
    /\ pc = "panic"
    /\ blk = 2
    /\ ~success
    /\ dma[dma_ch[0]].active
    /\ dma[dma_ch[1]].active

\* The constant loads of the sync-out block (lines 247-250) have run
SyncOutLoaded == pc \in {"start", "idle"}

\* C11 (as the code has it): the half period latched in the sync-out state
\* machine equals (signal_duration / 2) - DEADTIME_COMPENSATION, where
\* signal_duration is the value the synthesizer returned.
C11_HalfPeriodLessDeadtimeCompensation ==
    SyncOutLoaded =>
       /\ signal_duration = synth_signal_duration(cfg)
       /\ sync_out_half_duration = (signal_duration \div 2) - DEADTIME_COMPENSATION
       /\ \A ps \in PioSm :
             sm_program[ps] = "sync_out" => isr[ps] = sync_out_half_duration

C11_Witness ==
    /\ pc = "start"
    /\ cfg = Cfg(255, 8, 50000)
    /\ signal_duration = 392128
    /\ \E ps \in PioSm : sm_program[ps] = "sync_out" /\ isr[ps] = 196062

\* C11 as stated: the half period latched in the sync-out state machine
\* equals (signal_duration / 2) - IE_DELAY_COMPENSATION.
C11_HalfPeriodLessExecutionDelay ==
    SyncOutLoaded =>
       \A ps \in PioSm :
          sm_program[ps] = "sync_out" =>
             isr[ps] = (signal_duration \div 2) - IE_DELAY_COMPENSATION

\* The table a channel reads: 1 is spwm_h1_high_table, 2 is spwm_h2_high_table
LegTable(t) == IF t = 1 THEN spwm_h1_high_table ELSE spwm_h2_high_table

\* Every word that reached a state machine's TX FIFO since its last clear,
\* in order of arrival: those it has taken, then those still waiting
Stream(ps) == pulled[ps] \o tx_fifo[ps]

\* C12: for a valid configuration each leg's channel reads its table as a
\* ring that wraps at the table length, 2*mf entries: the k-th word it
\* delivers is table[k mod 2*mf], and after k words its read address stands
\* at entry k mod 2*mf, inside the table.
C12_RingWrapsAtTableLength ==
    ValidConfig(cfg) =>
       \A ch \in DmaChannels :
          dma[ch].active =>
             /\ dma[ch].ring_words = 2 * cfg.mf
             /\ Len(Stream(dma[ch].target)) = dma[ch].sent + 1
             /\ \A k \in 0 .. (dma[ch].sent - 1) :
                   Stream(dma[ch].target)[k + 2] =
                      LegTable(dma[ch].table)[k % (2 * cfg.mf)]
             /\ dma[ch].read_index = dma[ch].sent % (2 * cfg.mf)

\* The sync count main() puts for leg k (lines 205, 227)
SyncCount(k) == IF k = 0 THEN h1_sync_count ELSE h2_sync_count

\* Leg k's block has executed its loads (lines 201-205, 223-227)
LegLoaded(k) ==
    AdjustDone /\ \/ blk > k
                  \/ blk = k /\ pc \in {"dma_claim", "dma_config"}
                  \/ blk = k /\ pc = "panic" /\ success

\* C13: a leg's state machine is enabled only by the start, after its loads;
\* once the loads ran and while it is not yet enabled, its ISR holds
\* NET_DEADTIME_COUNT (the first constant) and its TX FIFO holds the leg's
\* adjusted sync count (the second constant) at the head, followed only by
\* the first entries of the leg's table in order: two constants, and the
\* sync count ahead of every table entry.
C13_TwoConstantsBeforeEnable ==
    \A k \in 0 .. 1 :
       \A ps \in PioSm :
          sm_program[ps] = ProgramOf(k) =>
             /\ ps \in sm_enabled => (pc = "idle" /\ LegLoaded(k))
             /\ (LegLoaded(k) /\ ps \notin sm_enabled) =>
                   /\ isr[ps] = NET_DEADTIME_COUNT
                   /\ tx_fifo[ps] # << >>
                   /\ Head(tx_fifo[ps]) = SyncCount(k)
                   /\ \A j \in 2 .. Len(tx_fifo[ps]) :
                         tx_fifo[ps][j] = LegTable(k + 1)[j - 2]
                   /\ pulled[ps] = << >>

\* Both legs loaded and full FIFOs at the start: sync count 12173 at the head
\* of leg 1's FIFO, three table entries behind it
C13_Witness ==
    /\ pc = "start"
    /\ cfg = Cfg(255, 8, 50000)
    /\ \E ps \in PioSm :
          /\ sm_program[ps] = "spwm_h1"
          /\ isr[ps] = DEAD_TIME - DEADTIME_COMPENSATION
          /\ Len(tx_fifo[ps]) = TxFifoDepth
          /\ Head(tx_fifo[ps]) = h1_sync_count
          /\ h1_sync_count > 0
          /\ tx_fifo[ps][2] = spwm_h1_high_table[0]
    /\ \E ps \in PioSm :
          /\ sm_program[ps] = "spwm_h2"
          /\ Head(tx_fifo[ps]) = h2_sync_count

\* The start of line 258 has not been executed yet
BeforeStart == pc # "idle"

\* C14 (as the code has it): before the start no state machine is enabled
\* and none has taken a word; a leg's channel is triggered when it is
\* configured, which is after both tables are final, and before the start it
\* reads at most TxFifoDepth - 1 leading entries of its table, which wait in
\* the TX FIFO behind the sync count.
C14_OnlyPrefetchBeforeStart ==
    /\ BeforeStart =>
          /\ sm_enabled = {}
          /\ \A ps \in PioSm : pulled[ps] = << >>
          /\ \A ch \in DmaChannels :
                /\ dma[ch].sent <= TxFifoDepth - 1
                /\ dma[ch].read_index = dma[ch].sent
                /\ dma[ch].active =>
                      Len(tx_fifo[dma[ch].target]) = dma[ch].sent + 1
    /\ \A ch \in DmaChannels : dma[ch].active => AdjustDone

\* Both channels have filled their FIFOs while the start is still to come
C14_Witness ==
    /\ pc = "start"
    /\ cfg = Cfg(255, 8, 50000)
    /\ sm_enabled = {}
    /\ \A ch \in DmaChannels :
          /\ dma[ch].active
          /\ dma[ch].sent = TxFifoDepth - 1
          /\ dma[ch].read_index = TxFifoDepth - 1

\* C14 (as stated): before the start no entry of either table has been read
\* by a channel or taken by a state machine.
C14_NothingReadBeforeStart ==
    BeforeStart =>
       /\ \A ch \in DmaChannels : dma[ch].sent = 0 /\ dma[ch].read_index = 0
       /\ \A ps \in PioSm : pulled[ps] = << >>

\* main() has executed its last shutdown statement (line 283)
ShutdownDone == pc = "exit"

\* C15: when the shutdown sequence has run to its end, no DMA channel is
\* active and no state machine is enabled; the channels were disabled before
\* the state machines, so while any state machine teardown is under way
\* (state machines disabled or programs being removed) no channel is active.
C15_ShutdownStopsEverything ==
    /\ ShutdownDone =>
          /\ \A ch \in DmaChannels : ~dma[ch].active
          /\ sm_enabled = {}
    /\ pc \in {"sm_disable", "remove_program"} =>
          \A ch \in DmaChannels : ~dma[ch].active

\* uint32_t SPWM_array[128] (spwm_lut.cpp lines 388-405), index 0 first
SPWM_array ==
    << 1944, 3945, 3830, 4021, 3753, 4098, 3676, 4174,
       3600, 4251, 3524, 4327, 3448, 4403, 3372, 4478,
       3297, 4554, 3222, 4628, 3147, 4703, 3073, 4777,
       2999, 4850, 2926, 4923, 2854, 4995, 2782, 5067,
       2710, 5138, 2640, 5208, 2570, 5277, 2501, 5346,
       2433, 5413, 2366, 5480, 2300, 5546, 2234, 5610,
       2170, 5674, 2107, 5737, 2045, 5798, 1984, 5859,
       1924, 5918, 1865, 5976, 1808, 6033, 1751, 6089,
       1697, 6143, 1643, 6196, 1591, 6247, 1540, 6297,
       1491, 6346, 1443, 6393, 1396, 6439, 1351, 6483,
       1308, 6526, 1266, 6567, 1226, 6606, 1187, 6644,
       1150, 6680, 1115, 6714, 1081, 6747, 1049, 6778,
       1019, 6808,  991, 6835,  964, 6861,  939, 6885,
        916, 6907,  894, 6928,  875, 6946,  857, 6963,
        841, 6978,  827, 6991,  815, 7003,  805, 7012,
        796, 7020,  790, 7025,  785, 7029,  782, 7031 >>

\* C16: with the compiled configuration (50 Hz, mf = 256, ma = 0.8, 10 ns
\* tick) entries 0..127 of a leg's table, as the synthesizer returns it,
\* equal SPWM_array position by position.
C16_TableEqualsFixture ==
    (cfg = CompiledConfig /\ SynthReturned) =>
       \/ \A i \in 0 .. 127 : raw.h1[i] = SPWM_array[i + 1]
       \/ \A i \in 0 .. 127 : raw.h2[i] = SPWM_array[i + 1]

\* The loop running at pc searches the carrier quarter [QuarterStart, QuarterEnd)
QuarterStart ==
    CASE pc = "q1_loop" -> 0
      [] pc = "q2_loop" -> carrier_duration_quarter(cfg)
      [] pc = "q3_loop" -> carrier_duration_half(cfg)
      [] pc = "q4_loop" -> carrier_duration_3_quarter(cfg)
      [] OTHER -> 0

QuarterEnd ==
    CASE pc = "q1_loop" -> carrier_duration_quarter(cfg)
      [] pc = "q2_loop" -> carrier_duration_half(cfg)
      [] pc = "q3_loop" -> carrier_duration_3_quarter(cfg)
      [] pc = "q4_loop" -> carrier_duration(cfg)
      [] OTHER -> 0

\* This step captures a crossing for leg 1 (first and fourth quarter): the
\* sync capture or a store through p_h1_ref1
Leg1Captures ==
    /\ pc \in {"q1_loop", "q4_loop"}
    /\ \/ syn'.s1_sync_captured # syn.s1_sync_captured
       \/ syn'.p_h1_ref1 # syn.p_h1_ref1

\* This step captures a crossing for leg 2 (second and third quarter)
Leg2Captures ==
    /\ pc \in {"q2_loop", "q3_loop"}
    /\ \/ syn'.s2_sync_captured # syn.s2_sync_captured
       \/ syn'.p_h2_ref1 # syn.p_h2_ref1

\* The tick a capturing step captures is time_counter; it lies in the window
\* of the quarter being searched
InQuarterWindow ==
    /\ syn.tri_time_counter >= QuarterStart
    /\ syn.tri_time_counter < QuarterEnd
    /\ syn.time_counter >= (syn.n * carrier_duration(cfg)) + QuarterStart
    /\ syn.time_counter < (syn.n * carrier_duration(cfg)) + QuarterEnd

\* C17: with a valid configuration every capture of a crossing takes a tick
\* inside the window of the quarter being searched, n * carrier_duration +
\* [quarter start, quarter end); the tick is remembered as the leg's last
\* crossing; and every capture after the leg's first is strictly later than
\* the leg's previous one, so the duration stored, their difference, is
\* strictly positive and below the signal period (far below 2^32).
C17_CrossingsIncreaseInWindow ==
    [][ValidConfig(cfg) =>
          /\ Leg1Captures =>
                /\ InQuarterWindow
                /\ syn'.h1_high_val_old = syn.time_counter
                /\ syn.s1_sync_captured =>
                      /\ syn.time_counter > syn.h1_high_val_old
                      /\ syn.time_counter - syn.h1_high_val_old < synth_signal_duration(cfg)
                      /\ spwm_h1_high_table'[syn.p_h1_ref1] =
                            syn.time_counter - syn.h1_high_val_old
          /\ Leg2Captures =>
                /\ InQuarterWindow
                /\ syn'.h2_high_val_old = syn.time_counter
                /\ syn.s2_sync_captured =>
                      /\ syn.time_counter > syn.h2_high_val_old
                      /\ syn.time_counter - syn.h2_high_val_old < synth_signal_duration(cfg)
                      /\ spwm_h2_high_table'[syn.p_h2_ref1] =
                            syn.time_counter - syn.h2_high_val_old
      ]_vars

\* In the second carrier cycle leg 2 has captured a crossing in the third
\* quarter and leg 1 one in the fourth, each after earlier captures
C17_Witness ==
    /\ cfg = Cfg(255, 8, 50000)
    /\ pc = "q4_loop"
    /\ syn.n = 1
    /\ syn.p_h1_ref1 >= 3
    /\ syn.p_h2_ref1 >= 3
    /\ syn.h1_high_val_old >= carrier_duration(cfg) + carrier_duration_3_quarter(cfg)
    /\ syn.h2_high_val_old >= carrier_duration(cfg) + carrier_duration_half(cfg)
    /\ syn.h2_high_val_old < carrier_duration(cfg) + carrier_duration_3_quarter(cfg)

\* The state machines the three claims of lines 192, 216 and 238 acquired
Acquired == {ps \in PioSm : sm_program[ps] # "none"}

\* C18: after the start the enabled state machines are exactly the three
\* acquired ones, whichever block each claim returned.
C18_EnabledExactlyAcquired ==
    pc = "idle" => (sm_enabled = Acquired /\ Cardinality(Acquired) = 3)

SearchLoopPcs == {"q1_loop", "q2_loop", "q3_loop", "q4_loop"}

\* C19: with a valid configuration setup eventually executes the start
\* unless a hardware acquisition fails; on the way every pass of a quarter's
\* search loop that stays in the loop moves tri_time_counter on by one or
\* puts it on the quarter's bound, and the outer loop is left with n = mf/4.
C19_SetupReachesStart ==
    /\ ValidConfig(cfg) => <>(pc = "idle" \/ AcquisitionFailed)
    /\ [][(pc \in SearchLoopPcs /\ pc' = pc) =>
             /\ syn.tri_time_counter < QuarterEnd
             /\ \/ syn'.tri_time_counter = syn.tri_time_counter + 1
                \/ syn'.tri_time_counter = QuarterEnd]_vars
    /\ [](pc = "synth_final" => syn.n = cfg.mf \div 4)

\* The start was executed after four passes of the outer loop
C19_Witness ==
    /\ pc = "idle"
    /\ cfg = Cfg(60, 16, 50000)
    /\ syn.n = 4
    /\ sm_enabled # {}

====
